---- MODULE Spec2Model ----
(***************************************************************************)
(* Model of airflow/providers/databricks/operators/databricks_sql.py:      *)
(* DatabricksSqlOperator (runs SQL through the hook and optionally writes  *)
(* the rows to a file) and DatabricksCopyIntoOperator (validates its       *)
(* arguments, renders one COPY INTO statement and runs it through the      *)
(* hook).                                                                  *)
(*                                                                         *)
(* Text is a sequence of atoms: an atom is a whitespace character (" " or  *)
(* "\n"), the quote character "'", or a chunk of characters that holds     *)
(* neither.  Concatenation of text is concatenation of sequences.          *)
(* Python's None is the empty tuple and a present optional value v is the  *)
(* one-element tuple <<v>>.  A dict is the sequence of its (key, value)    *)
(* pairs in insertion order, keys distinct.                                *)
(***************************************************************************)
EXTENDS Integers, Sequences, FiniteSets, TLC

VARIABLES
  heap,     \* the dict objects the caller created: reference -> object
  created,  \* reference -> the dict as the caller wrote it
  copyOps,  \* slot -> None or Some(a DatabricksCopyIntoOperator)
  sqlOp,    \* None or Some(the DatabricksSqlOperator)
  ctor,     \* the constructor call just made and how it ended
  exec,     \* the execute call in progress or just ended
  file      \* the file at the output path

vars == <<heap, created, copyOps, sqlOp, ctor, exec, file>>

\* ------------------------------------------------------------------ bounds

\* dict objects the caller may create and keep a reference to
MaxDicts == 2
\* DatabricksCopyIntoOperator instances alive at once
MaxCopyOps == 2
\* rows in the result the hook returns
MaxRows == 2
\* entries of the files argument
MaxFiles == 2

\* ------------------------------------------------------- values and text

None == <<>>
Some(v) == <<v>>

SP == " "
NL == "\n"
QUOTE == "'"

IsSpace(a) == a = SP \/ a = NL

RECURSIVE Join(_, _)
\* sep.join(parts)
Join(parts, sep) ==
  IF parts = <<>> THEN <<>>
  ELSE IF Len(parts) = 1 THEN parts[1]
  ELSE parts[1] \o sep \o Join(Tail(parts), sep)

RECURSIVE lstrip(_)
lstrip(s) == IF s /= <<>> /\ IsSpace(s[1]) THEN lstrip(Tail(s)) ELSE s

RECURSIVE rstrip(_)
rstrip(s) ==
  IF s /= <<>> /\ IsSpace(s[Len(s)]) THEN rstrip(SubSeq(s, 1, Len(s) - 1)) ELSE s

\* strip that forgets the end of the string
strip_leading(s) == lstrip(s)

\* str.strip(): leading and trailing whitespace removed
strip(s) == rstrip(lstrip(s))

\* ------------------------------------------------------------------ dicts

DictKeys(d) == {d[i][1] : i \in 1..Len(d)}
DictHas(d, k) == k \in DictKeys(d)
DictIndex(d, k) == CHOOSE i \in 1..Len(d) : d[i][1] = k
\* d[k]
DictGet(d, k) == d[DictIndex(d, k)][2]
\* d.get(k, default)
DictGetDefault(d, k, default) == IF DictHas(d, k) THEN DictGet(d, k) ELSE default
\* d[k] = v : an existing key keeps its place, a new key goes last
DictSet(d, k, v) ==
  IF DictHas(d, k) THEN [d EXCEPT ![DictIndex(d, k)] = <<k, v>>]
  ELSE Append(d, <<k, v>>)
\* del d[k]
DictDel(d, k) ==
  LET i == DictIndex(d, k)
  IN SubSeq(d, 1, i - 1) \o SubSeq(d, i + 1, Len(d))

\* A handle on a dict argument: absent, a fresh literal nobody else holds
\* (kept by value), or a reference to a dict object of the caller in heap.
NoDict == [kind |-> "none"]
ValDict(d) == [kind |-> "val", val |-> d]
RefDict(r) == [kind |-> "ref", ref |-> r]

Unalloc == [alloc |-> FALSE]
Allocated(h, r) == h[r].alloc
Obj(d) == [alloc |-> TRUE, val |-> d]

\* the dict a handle denotes (handle is not none)
Deref(h, x) == IF x.kind = "ref" THEN h[x.ref].val ELSE x.val
\* Python truthiness of an Optional[dict]
Truthy(h, x) == x.kind /= "none" /\ Deref(h, x) /= <<>>

\* ------------------------------------------------------------ the escaper

RECURSIVE DoubleQuotes(_)
\* item.replace("'", "''")
DoubleQuotes(s) ==
  IF s = <<>> THEN <<>>
  ELSE IF s[1] = QUOTE THEN <<QUOTE, QUOTE>> \o DoubleQuotes(Tail(s))
  ELSE <<s[1]>> \o DoubleQuotes(Tail(s))

\* ParamEscaper.escape_item on a str: the string in quotes, its quotes escaped
escape_string(s) == <<QUOTE>> \o DoubleQuotes(s) \o <<QUOTE>>

\* ParamEscaper.escape_item on a list of str: "(" + ",".join(escaped items) + ")"
escape_sequence(l) ==
  <<"(">> \o Join([i \in 1..Len(l) |-> escape_string(l[i])], <<",">>) \o <<")">>

\* ------------------------------------------- DatabricksCopyIntoOperator

COPY_INTO_APPROVED_FORMATS ==
  << <<"CSV">>, <<"JSON">>, <<"AVRO">>, <<"ORC">>, <<"PARQUET">>, <<"TEXT">>,
     <<"BINARYFILE">> >>

InList(x, l) == \E i \in 1..Len(l) : l[i] = x

AirflowException == "AirflowException"

Raise(type, msg, h) == [raised |-> TRUE, type |-> type, msg |-> msg, heap |-> h]

\* CopyInto_validate testing `files and pattern` for truth, not for None
CopyInto_validate_truth(a) ==
  IF a.files /= None /\ a.files /= Some(<<>>)
       /\ a.pattern /= None /\ a.pattern /= Some(<<>>)
    THEN "Only one of 'pattern' or 'files' should be specified"
  ELSE IF a.table_name = <<>> THEN "table_name shouldn't be empty"
  ELSE IF a.file_location = <<>> THEN "file_location shouldn't be empty"
  ELSE IF ~InList(a.file_format, COPY_INTO_APPROVED_FORMATS)
    THEN "file_format isn't supported"
  ELSE "ok"

\* the checks that open DatabricksCopyIntoOperator.__init__: the message of
\* the AirflowException raised, or "ok"
CopyInto_validate(a) ==
  IF a.files /= None /\ a.pattern /= None
    THEN "Only one of 'pattern' or 'files' should be specified"
  ELSE IF a.table_name = <<>> THEN "table_name shouldn't be empty"
  ELSE IF a.file_location = <<>> THEN "file_location shouldn't be empty"
  ELSE IF ~InList(a.file_format, COPY_INTO_APPROVED_FORMATS)
    THEN "file_format isn't supported"
  ELSE "ok"

\* ForceLiteral as str(force_copy)
ForceLiteral_str(force_copy) == IF force_copy THEN <<"True">> ELSE <<"False">>

\* 'true' if force_copy else 'false'
ForceLiteral(force_copy) == IF force_copy THEN <<"true">> ELSE <<"false">>

\* DatabricksCopyIntoOperator.__init__(**a) with the heap h: either raises,
\* or yields the new operator (self) and the heap as the constructor left it.
\* `copy_options or {}` keeps the caller's dict object when it is non-empty
\* and makes a fresh dict otherwise; the force entry is stored into that dict.
CopyInto__init__(a, h) ==
  IF CopyInto_validate(a) /= "ok"
    THEN Raise(AirflowException, CopyInto_validate(a), h)
  ELSE
    LET co == IF Truthy(h, a.copy_options) THEN a.copy_options ELSE ValDict(<<>>)
        forced == ForceLiteral(a.force_copy[1])
        co1 == IF a.force_copy /= None /\ co.kind = "val"
                 THEN ValDict(DictSet(co.val, <<"force">>, forced))
                 ELSE co
        h1 == IF a.force_copy /= None /\ co.kind = "ref"
                THEN [h EXCEPT ![co.ref] =
                        Obj(DictSet(h[co.ref].val, <<"force">>, forced))]
                ELSE h
    IN [raised |-> FALSE,
        self |-> [files |-> a.files, pattern |-> a.pattern,
                  file_format |-> a.file_format, table_name |-> a.table_name,
                  file_location |-> a.file_location,
                  expression_list |-> a.expression_list,
                  format_options |-> a.format_options,
                  copy_options |-> co1,
                  args |-> a],
        heap |-> h1]

\* _generate_options(name, escaper, opts): opts is a handle
_generate_options(name, h, opts) ==
  IF opts.kind /= "none" /\ Len(Deref(h, opts)) > 0
    THEN LET d == Deref(h, opts)
             pairs == [i \in 1..Len(d) |->
                         escape_string(d[i][1]) \o <<SP, "=", SP>>
                           \o escape_string(d[i][2])]
         IN <<name, SP, "(">> \o Join(pairs, <<",", SP>>) \o <<")", NL>>
    ELSE <<>>

\* files_or_pattern with the pattern interpolated as it is
files_or_pattern_raw(self) ==
  IF self.pattern /= None
    THEN <<"PATTERN", SP, "=", SP>> \o self.pattern[1] \o <<NL>>
  ELSE IF self.files /= None
    THEN <<"FILES", SP, "=", SP>> \o escape_sequence(self.files[1]) \o <<NL>>
  ELSE <<>>

\* the files_or_pattern line of _create_sql_query
files_or_pattern(self) ==
  IF self.pattern /= None
    THEN <<"PATTERN", SP, "=", SP>> \o escape_string(self.pattern[1]) \o <<NL>>
  ELSE IF self.files /= None
    THEN <<"FILES", SP, "=", SP>> \o escape_sequence(self.files[1]) \o <<NL>>
  ELSE <<>>

_create_sql_query(self, h) ==
  LET location0 == escape_string(self.file_location)
      location == IF self.expression_list /= None
                    THEN <<"(", "SELECT", SP>> \o self.expression_list[1]
                           \o <<SP, "FROM", SP>> \o location0 \o <<")">>
                    ELSE location0
      format_options == _generate_options("FORMAT_OPTIONS", h, self.format_options)
      copy_options == _generate_options("COPY_OPTIONS", h, self.copy_options)
      sql == <<"COPY", SP, "INTO", SP>> \o self.table_name \o <<NL>>
               \o <<"FROM", SP>> \o location \o <<NL>>
               \o <<"FILEFORMAT", SP, "=", SP>> \o self.file_format \o <<NL>>
               \o files_or_pattern(self) \o format_options \o copy_options
               \o <<NL>>
  IN strip(sql)

\* ------------------------------------------------ DatabricksSqlOperator

\* DatabricksSqlOperator.__init__ refusing an output path without a format
DatabricksSql__init__checked(a, h) ==
  IF a.output_path /= None /\ a.output_format = Some(<<>>)
    THEN Raise(AirflowException, "Output format should be specified!", h)
    ELSE [raised |-> FALSE,
          self |-> [sql |-> a.sql, output_path |-> a.output_path,
                    output_format |-> a.output_format, csv_params |-> a.csv_params,
                    do_xcom_push |-> a.do_xcom_push, args |-> a],
          heap |-> h]

\* DatabricksSqlOperator.__init__(**a): stores its arguments, checks nothing
DatabricksSql__init__(a, h) ==
  [raised |-> FALSE,
   self |-> [sql |-> a.sql, output_path |-> a.output_path,
             output_format |-> a.output_format, csv_params |-> a.csv_params,
             do_xcom_push |-> a.do_xcom_push, args |-> a],
   heap |-> h]

\* str.lower() on one character of the alphabet the formats are written in
LowerChar(c) ==
  CASE c = "C" -> "c" [] c = "S" -> "s" [] c = "V" -> "v" [] c = "J" -> "j"
    [] c = "O" -> "o" [] c = "N" -> "n" [] c = "L" -> "l" [] c = "X" -> "x"
    [] c = "M" -> "m" [] OTHER -> c

\* lower that leaves the string as it is
lower_asis(s) == s

lower(s) == [i \in 1..Len(s) |-> LowerChar(s[i])]

\* open(path, "w"): the file exists and is empty
OpenW == [exists |-> TRUE, lines |-> <<>>]

DefaultDelimiter == <<",">>

\* one record written by csv.DictWriter(file, fieldnames, **params)
CsvRecord(cells, params) ==
  [t |-> "csv_record", cells |-> cells,
   delimiter |-> DictGetDefault(params, <<"delimiter">>, DefaultDelimiter)]

\* file.write(json.dumps(v)) for a list of row dicts, and for one row dict
JsonArray(items) == [t |-> "json_array", items |-> items]
JsonObject(row) == [t |-> "json_object", obj |-> row]

AsDicts(results) == [i \in 1..Len(results) |-> results[i]]

\* what _format_output leaves behind when it writes nothing
FormatNothing(self, h, f) ==
  [raised |-> FALSE, type |-> "none", self |-> self, heap |-> h, file |-> f,
   opens |-> 0]

\* FormatRaise reached with the output file already opened for writing
FormatRaise_opened(self, h, f) ==
  [raised |-> TRUE, type |-> AirflowException, self |-> self, heap |-> h,
   file |-> [exists |-> TRUE, lines |-> <<>>], opens |-> 1]

\* raise AirflowException(...) in _format_output: nothing has been opened
FormatRaise(self, h, f) ==
  [raised |-> TRUE, type |-> AirflowException, self |-> self, heap |-> h,
   file |-> f, opens |-> 0]

\* _format_output(self, schema, results) with the heap h and the output file f
_format_output(self, schema, results, h, f) ==
  IF self.output_path = None \/ self.output_path = Some(<<>>)
    THEN FormatNothing(self, h, f)
  ELSE IF self.output_format = None \/ self.output_format = Some(<<>>)
    THEN FormatRaise(self, h, f)
  ELSE
    LET field_names == [i \in 1..Len(schema) |-> schema[i][1]]
        fmt == lower(self.output_format[1])
    IN IF fmt = <<"c", "s", "v">>
         THEN LET given == Truthy(h, self.csv_params)
                  csv_params == IF given THEN Deref(h, self.csv_params) ELSE <<>>
                  write_header == DictGetDefault(csv_params, <<"header">>, TRUE)
                  deleted == DictHas(csv_params, <<"header">>)
                  params == IF deleted THEN DictDel(csv_params, <<"header">>)
                            ELSE csv_params
                  \* del csv_params["header"] acts on the operator's own dict
                  self1 == IF given /\ deleted /\ self.csv_params.kind = "val"
                             THEN [self EXCEPT !.csv_params = ValDict(params)]
                             ELSE self
                  h1 == IF given /\ deleted /\ self.csv_params.kind = "ref"
                          THEN [h EXCEPT ![self.csv_params.ref] = Obj(params)]
                          ELSE h
                  header == IF write_header
                              THEN <<CsvRecord(field_names, params)>>
                              ELSE <<>>
                  rows == [i \in 1..Len(results) |->
                             CsvRecord([j \in 1..Len(field_names) |->
                                          results[i][field_names[j]]], params)]
              IN [raised |-> FALSE, type |-> "none", self |-> self1, heap |-> h1,
                  file |-> [OpenW EXCEPT !.lines = header \o rows], opens |-> 1]
       ELSE IF fmt = <<"j", "s", "o", "n">>
         THEN [raised |-> FALSE, type |-> "none", self |-> self, heap |-> h,
               file |-> [OpenW EXCEPT !.lines = <<JsonArray(AsDicts(results))>>],
               opens |-> 1]
       ELSE IF fmt = <<"j", "s", "o", "n", "l">>
         THEN [raised |-> FALSE, type |-> "none", self |-> self, heap |-> h,
               file |-> [OpenW EXCEPT !.lines =
                           [i \in 1..Len(results) |-> JsonObject(results[i])]],
               opens |-> 1]
       ELSE FormatRaise(self, h, f)

\* --------------------------------------------------------------- execute

\* what hook.run did: returned (schema, results), or raised error
HookReturned(schema, results) ==
  [raised |-> FALSE, error |-> "none", schema |-> schema, results |-> results]
HookRaised(e) == [raised |-> TRUE, error |-> e, schema |-> <<>>, results |-> <<>>]

\* Propagate with the error caught and dropped
Propagate_caught(self, h, f, hr) ==
  [outcome |-> "returned", error |-> "none", value |-> None,
   self |-> self, heap |-> h, file |-> f, opens |-> 0, hook_calls |-> 1]

\* hook.run raised inside execute: no handler, the error leaves execute
Propagate(self, h, f, hr) ==
  [outcome |-> "raised", error |-> hr.error, value |-> None,
   self |-> self, heap |-> h, file |-> f, opens |-> 0, hook_calls |-> 1]

\* DatabricksSqlOperator.execute from the return of hook.run on: hr is what
\* the hook did, h the heap and f the output file.  hook_calls counts the
\* calls of hook.run the whole of execute makes.
SqlExecute(self, h, f, hr) ==
  IF hr.raised THEN Propagate(self, h, f, hr)
  ELSE
    LET fo == _format_output(self, hr.schema, hr.results, h, f)
    IN IF fo.raised
         THEN [outcome |-> "raised", error |-> fo.type, value |-> None,
               self |-> fo.self, heap |-> fo.heap, file |-> fo.file,
               opens |-> fo.opens, hook_calls |-> 1]
         ELSE [outcome |-> "returned", error |-> "none",
               value |-> IF self.do_xcom_push THEN Some(hr.results) ELSE None,
               self |-> fo.self, heap |-> fo.heap, file |-> fo.file,
               opens |-> fo.opens, hook_calls |-> 1]

\* DatabricksCopyIntoOperator.execute from the return of hook.run on
CopyExecute(self, h, f, hr) ==
  IF hr.raised THEN Propagate(self, h, f, hr)
    ELSE [outcome |-> "returned", error |-> "none", value |-> None,
          self |-> self, heap |-> h, file |-> f, opens |-> 0, hook_calls |-> 1]

\* ----------------------------------------------------------------- state

NoFile == [exists |-> FALSE, lines |-> <<>>]

NoCtor == [kind |-> "none", raised |-> FALSE, type |-> "none"]

Idle ==
  [pc |-> "idle", kind |-> "none", slot |-> 0, sent |-> <<>>, hook_calls |-> 0,
   hook |-> HookReturned(<<>>, <<>>), opens |-> 0, outcome |-> "none",
   error |-> "none", value |-> None, file_before |-> NoFile,
   self_before |-> NoCtor]

Init ==
  /\ heap = [r \in 1..MaxDicts |-> Unalloc]
  /\ created = [r \in 1..MaxDicts |-> <<>>]
  /\ copyOps = [i \in 1..MaxCopyOps |-> None]
  /\ sqlOp = None
  /\ ctor = NoCtor
  /\ exec = Idle
  /\ file = NoFile

\* the interpreter runs one call at a time: while hook.run is running the
\* caller does nothing else
CallerRuns == exec.pc /= "in_hook"

\* ---------------------------------------------------------------- inputs

KV == << <<"k">>, <<"v">> >>
CopyOptionLiterals ==
  { <<>>, <<KV>>, << <<(<<"force">>), (<<"x">>)>> >>,
    << <<(<<"force">>), (<<"false">>)>>, KV >> }
FormatOptionLiterals ==
  { <<>>, << <<(<<"header">>), (<<"true">>)>> >>,
    << <<(<<"header">>), (<<"true">>)>>, <<(<<"sep">>), (<<"it", QUOTE, "s">>)>> >> }

TableNames == { <<>>, <<"t">> }
Locations == { <<>>, <<"loc">>, <<"it", QUOTE, "s">> }
FileFormats ==
  {COPY_INTO_APPROVED_FORMATS[i] : i \in 1..Len(COPY_INTO_APPROVED_FORMATS)}
    \cup { <<"csv">>, <<"XML">>, <<>>, <<"CSV", SP>> }
\* the k-th file name: f'1, f'2, ...
FileName(k) == <<"f", QUOTE, ToString(k)>>
FilesArgs == {None} \cup {Some([k \in 1..n |-> FileName(k)]) : n \in 0..MaxFiles}
Patterns == {None, Some(<<>>), Some(<<"a.*", QUOTE>>)}
Expressions == {None, Some(<<"a,", SP, "b">>)}
ForceArgs == {None, Some(TRUE), Some(FALSE)}

\* the arguments of one DatabricksCopyIntoOperator(...) call, dicts by value
CopyArgsWide ==
  [table_name : TableNames, file_location : Locations, file_format : FileFormats,
   files : FilesArgs, pattern : Patterns, expression_list : Expressions,
   format_options : {NoDict} \cup {ValDict(d) : d \in FormatOptionLiterals},
   force_copy : ForceArgs,
   copy_options : {NoDict} \cup {ValDict(d) : d \in CopyOptionLiterals}]

\* a narrow choice of arguments, the copy options a dict object of the caller
CopyArgsShared(h) ==
  [table_name : {<<"t">>}, file_location : {<<"loc">>},
   file_format : {<<"CSV">>}, files : {None}, pattern : {None},
   expression_list : {None}, format_options : {NoDict},
   force_copy : ForceArgs,
   copy_options : {NoDict} \cup {RefDict(r) : r \in {q \in 1..MaxDicts : Allocated(h, q)}}]

\* a narrow choice of arguments without dicts
CopyArgsPlain ==
  [table_name : {<<"t">>}, file_location : {<<"loc">>},
   file_format : {<<"CSV">>, <<"XML">>}, files : {None}, pattern : {None},
   expression_list : {None}, format_options : {NoDict},
   force_copy : {None}, copy_options : {NoDict}]

HeaderOff == <<(<<"header">>), FALSE>>
HeaderOn == <<(<<"header">>), TRUE>>
Semicolon == <<(<<"delimiter">>), (<<";">>)>>
CsvParamLiterals == { <<HeaderOff>>, <<HeaderOn>>, <<HeaderOff, Semicolon>> }

OutputPaths == {None, Some(<<"out">>)}
OutputFormats ==
  {Some(<<>>), Some(<<"c", "s", "v">>), Some(<<"C", "S", "V">>),
   Some(<<"j", "s", "o", "n">>), Some(<<"J", "s", "o", "n", "L">>),
   Some(<<"x", "m", "l">>)}

SqlArgs ==
  [sql : { <<"SELECT", SP, "1">> }, output_path : OutputPaths,
   output_format : OutputFormats,
   csv_params : {NoDict} \cup {ValDict(d) : d \in CsvParamLiterals},
   do_xcom_push : BOOLEAN]

\* what the hook may answer
Schemas == { << <<"b", "int">>, <<"a", "int">> >> }
\* the k-th row of the table queried
RowOf(k) == [a |-> 2 * k - 1, b |-> 2 * k]
\* the first n rows, last first, for each n up to MaxRows
ResultSets == {[i \in 1..n |-> RowOf(n + 1 - i)] : n \in 0..MaxRows}
HookErrors == {"OperationalError", "ConnectionError"}

\* --------------------------------------------------------------- actions

\* the caller writes a dict literal and keeps a reference to it
NewDict(d) ==
  /\ CallerRuns
  /\ \E r \in 1..MaxDicts :
       /\ ~Allocated(heap, r)
       /\ \A q \in 1..(r - 1) : Allocated(heap, q)
       /\ heap' = [heap EXCEPT ![r] = Obj(d)]
       /\ created' = [created EXCEPT ![r] = d]
  /\ exec' = Idle
  /\ ctor' = NoCtor
  /\ UNCHANGED <<copyOps, sqlOp, file>>

\* op = DatabricksCopyIntoOperator(**a), kept in slot i when it succeeds
ConstructCopy(i, a) ==
  /\ CallerRuns
  /\ LET res == CopyInto__init__(a, heap)
     IN /\ ctor' = [kind |-> "copy", raised |-> res.raised,
                    type |-> IF res.raised THEN res.type ELSE "none", args |-> a]
        /\ heap' = res.heap
        /\ copyOps' = IF res.raised THEN copyOps
                      ELSE [copyOps EXCEPT ![i] = Some(res.self)]
  /\ exec' = Idle
  /\ UNCHANGED <<created, sqlOp, file>>

\* op = DatabricksSqlOperator(**a)
ConstructSql(a) ==
  /\ CallerRuns
  /\ LET res == DatabricksSql__init__(a, heap)
     IN /\ ctor' = [kind |-> "sql", raised |-> res.raised,
                    type |-> IF res.raised THEN res.type ELSE "none", args |-> a]
        /\ heap' = res.heap
        /\ sqlOp' = IF res.raised THEN sqlOp ELSE Some(res.self)
  /\ exec' = Idle
  /\ UNCHANGED <<created, copyOps, file>>

\* copyOps[i].execute(context) up to its call of hook.run(sql)
ExecuteCopy(i) ==
  /\ CallerRuns
  /\ copyOps[i] /= None
  /\ exec' = [Idle EXCEPT !.pc = "in_hook", !.kind = "copy", !.slot = i,
                          !.sent = _create_sql_query(copyOps[i][1], heap),
                          !.hook_calls = 1, !.file_before = file,
                          !.self_before = copyOps[i][1]]
  /\ ctor' = NoCtor
  /\ UNCHANGED <<heap, created, copyOps, sqlOp, file>>

\* sqlOp.execute(context) up to its call of hook.run(self.sql, parameters)
ExecuteSql ==
  /\ CallerRuns
  /\ sqlOp /= None
  /\ exec' = [Idle EXCEPT !.pc = "in_hook", !.kind = "sql", !.slot = 1,
                          !.sent = sqlOp[1].sql,
                          !.hook_calls = 1, !.file_before = file,
                          !.self_before = sqlOp[1]]
  /\ ctor' = NoCtor
  /\ UNCHANGED <<heap, created, copyOps, sqlOp, file>>

\* hook.run ends as hr and execute runs to its end
Resume(hr) ==
  /\ exec.pc = "in_hook"
  /\ LET res == IF exec.kind = "sql"
                  THEN SqlExecute(sqlOp[1], heap, file, hr)
                  ELSE CopyExecute(copyOps[exec.slot][1], heap, file, hr)
     IN /\ exec' = [exec EXCEPT !.pc = "done", !.hook = hr,
                                !.hook_calls = res.hook_calls,
                                !.opens = res.opens, !.outcome = res.outcome,
                                !.error = res.error, !.value = res.value]
        /\ heap' = res.heap
        /\ file' = res.file
        /\ sqlOp' = IF exec.kind = "sql" THEN Some(res.self) ELSE sqlOp
        /\ copyOps' = IF exec.kind = "copy"
                        THEN [copyOps EXCEPT ![exec.slot] = Some(res.self)]
                        ELSE copyOps
  /\ UNCHANGED <<created, ctor>>

HookReturns == \E sc \in Schemas, rs \in ResultSets : Resume(HookReturned(sc, rs))

HookRaises == \E e \in HookErrors : Resume(HookRaised(e))

\* -------------------------------------------------------- specifications

ConstructSqlAny == \E a \in SqlArgs : ConstructSql(a)
ConstructCopyPlain == \E a \in CopyArgsPlain : ConstructCopy(1, a)
ExecuteCopyFirst == ExecuteCopy(1)

\* both operators, constructed and executed in any order
Next ==
  \/ ConstructSqlAny
  \/ ConstructCopyPlain
  \/ ExecuteSql
  \/ ExecuteCopyFirst
  \/ HookReturns
  \/ HookRaises

Spec == Init /\ [][Next]_vars

ConstructCopyOnce == ctor.kind = "none" /\ exec.pc = "idle" /\ copyOps[1] = None
                       /\ \E a \in CopyArgsWide : ConstructCopy(1, a)

\* one DatabricksCopyIntoOperator call over the whole range of arguments,
\* and the executions of the operator it made
NextCopy ==
  \/ ConstructCopyOnce
  \/ ExecuteCopyFirst
  \/ HookReturns
  \/ HookRaises

SpecCopy == Init /\ [][NextCopy]_vars

NewDictAny == \E d \in CopyOptionLiterals : NewDict(d)
ConstructCopyShared ==
  \E i \in 1..MaxCopyOps : \E a \in CopyArgsShared(heap) : ConstructCopy(i, a)
ExecuteCopyAny == \E i \in 1..MaxCopyOps : ExecuteCopy(i)

\* several DatabricksCopyIntoOperator built from dict objects the caller keeps
NextShare ==
  \/ NewDictAny
  \/ ConstructCopyShared
  \/ ExecuteCopyAny
  \/ HookReturns
  \/ HookRaises

SpecShare == Init /\ [][NextShare]_vars

\* ------------------------------------------------------ reading the text

\* sub occurs in text as a run of consecutive atoms
Contains(text, sub) ==
  \E i \in 1..(Len(text) - Len(sub) + 1) : SubSeq(text, i, i + Len(sub) - 1) = sub

RECURSIVE Lines(_)
\* the lines of text: the runs of atoms between newlines
Lines(text) ==
  IF \A i \in 1..Len(text) : text[i] /= NL THEN <<text>>
  ELSE LET n == CHOOSE i \in 1..Len(text) :
                  text[i] = NL /\ \A j \in 1..(i - 1) : text[j] /= NL
       IN <<SubSeq(text, 1, n - 1)>> \o Lines(SubSeq(text, n + 1, Len(text)))

\* the lines of text that open with the keyword kw
LinesOf(text, kw) ==
  {i \in 1..Len(Lines(text)) : Lines(text)[i] /= <<>> /\ Lines(text)[i][1] = kw}

\* the only line of text that opens with kw
LineOf(text, kw) == Lines(text)[CHOOSE i \in LinesOf(text, kw) : TRUE]

\* a statement has been rendered by a DatabricksCopyIntoOperator and handed
\* to the hook: exec.sent is the statement, CopyArgs the operator's arguments
Rendered == exec.kind = "copy"
CopySelf == exec.self_before
CopyArgs == exec.self_before.args

SevenFormats ==
  { <<"CSV">>, <<"JSON">>, <<"AVRO">>, <<"ORC">>, <<"PARQUET">>, <<"TEXT">>,
    <<"BINARYFILE">> }

\* ------------------------------------------------------------------- C1

\* C1: DatabricksCopyIntoOperator(...) raises AirflowException if and only
\* if files and pattern are both non-null, or table_name is "", or
\* file_location is "", or file_format is none of CSV, JSON, AVRO, ORC,
\* PARQUET, TEXT, BINARYFILE; otherwise the operator is constructed.
C1_RaisesIffInvalid ==
  ctor.kind = "copy" =>
    LET a == ctor.args
        invalid == \/ (a.files /= None /\ a.pattern /= None)
                   \/ a.table_name = <<>>
                   \/ a.file_location = <<>>
                   \/ a.file_format \notin SevenFormats
    IN /\ ctor.raised <=> invalid
       /\ ctor.raised => ctor.type = AirflowException /\ copyOps[1] = None
       /\ ~ctor.raised => copyOps[1] /= None /\ copyOps[1][1].args = a
       /\ (a.files /= None /\ a.pattern /= None) => ctor.raised

\* a construction with a pattern and an empty file list, all else valid,
\* has been refused
C1_Witness ==
  /\ ctor.kind = "copy" /\ ctor.raised
  /\ ctor.args.files = Some(<<>>) /\ ctor.args.pattern /= None
  /\ ctor.args.table_name /= <<>> /\ ctor.args.file_location /= <<>>
  /\ ctor.args.file_format = <<"BINARYFILE">>

\* ------------------------------------------------------------------- C2

\* the copy options the caller gave with force_copy folded in: the force
\* entry replaced where it stands, or added last
Folded(a) ==
  LET base == IF a.copy_options.kind = "none" THEN <<>> ELSE a.copy_options.val
      lit == IF a.force_copy = Some(TRUE) THEN <<"true">> ELSE <<"false">>
  IN IF a.force_copy = None THEN base
     ELSE IF \E i \in 1..Len(base) : base[i][1] = <<"force">>
       THEN [i \in 1..Len(base) |->
               IF base[i][1] = <<"force">> THEN <<(<<"force">>), lit>> ELSE base[i]]
       ELSE base \o << <<(<<"force">>), lit>> >>

\* the text  force = 'true'  or  force = 'false'
ForceBare(lit) == <<"force", SP, "=", SP, QUOTE, lit, QUOTE>>
\* the text  'force' = 'true'  or  'force' = 'false'
ForceQuoted(lit) == <<QUOTE, "force", QUOTE, SP, "=", SP, QUOTE, lit, QUOTE>>

\* what C2 says apart from the text of the force entry, which is onTrue for
\* force_copy True and onFalse for force_copy False
C2_Body(onTrue, onFalse) ==
  Rendered =>
    LET a == CopyArgs
        clause == LinesOf(exec.sent, "COPY_OPTIONS")
    IN /\ CopySelf.copy_options.val = Folded(a)
       /\ a.force_copy = Some(TRUE) =>
            /\ Cardinality(clause) = 1
            /\ Contains(LineOf(exec.sent, "COPY_OPTIONS"), onTrue)
            /\ ~Contains(exec.sent, <<"force", QUOTE, SP, "=", SP, QUOTE, "x">>)
            /\ ~Contains(exec.sent, <<"force", QUOTE, SP, "=", SP, QUOTE, "false">>)
       /\ a.force_copy = Some(FALSE) =>
            /\ Cardinality(clause) = 1
            /\ Contains(LineOf(exec.sent, "COPY_OPTIONS"), onFalse)
            /\ ~Contains(exec.sent, <<"force", QUOTE, SP, "=", SP, QUOTE, "x">>)
            /\ ~Contains(exec.sent, <<"force", QUOTE, SP, "=", SP, QUOTE, "true">>)
       /\ (a.force_copy = None /\ (a.copy_options.kind = "none"
                                     \/ a.copy_options.val = <<>>)) =>
            /\ clause = {}
            /\ ~Contains(exec.sent, <<"COPY_OPTIONS">>)

\* C2 as claimed: force_copy is folded into the copy options as force ->
\* 'true' or 'false' over any force entry given, and the rendered statement
\* has a COPY_OPTIONS clause holding the text  force = 'true'  (force_copy
\* True) or  force = 'false'  (False); with force_copy None and no copy
\* options there is no COPY_OPTIONS clause.
C2_Original == C2_Body(ForceBare("true"), ForceBare("false"))

\* C2 as amended: the same, the clause holding the entry with its key
\* escaped like its value:  'force' = 'true'  or  'force' = 'false'.
C2_ForceFolded == C2_Body(ForceQuoted("true"), ForceQuoted("false"))

\* force_copy False over copy options that already hold a force entry
C2_Witness ==
  /\ Rendered /\ exec.pc = "done"
  /\ CopyArgs.force_copy = Some(FALSE)
  /\ CopyArgs.copy_options.kind = "val"
  /\ \E i \in 1..Len(CopyArgs.copy_options.val) :
       CopyArgs.copy_options.val[i] = <<(<<"force">>), (<<"x">>)>>

\* ------------------------------------------------------------------- C3

\* C3: the statement of a constructed operator has a PATTERN = line with
\* the escaped pattern and no FILES = line when pattern is non-null, a
\* FILES = line with the escaped file list and no PATTERN = line when files
\* is non-null, and neither line when both are null.
C3_PatternOrFiles ==
  Rendered =>
    LET a == CopyArgs
        patterns == LinesOf(exec.sent, "PATTERN")
        files == LinesOf(exec.sent, "FILES")
    IN /\ Cardinality(patterns) + Cardinality(files) <= 1
       /\ a.pattern /= None =>
            /\ files = {}
            /\ Cardinality(patterns) = 1
            /\ LineOf(exec.sent, "PATTERN")
                 = <<"PATTERN", SP, "=", SP>> \o escape_string(a.pattern[1])
       /\ a.files /= None =>
            /\ patterns = {}
            /\ Cardinality(files) = 1
            /\ LineOf(exec.sent, "FILES")
                 = <<"FILES", SP, "=", SP>> \o escape_sequence(a.files[1])
       /\ (a.pattern = None /\ a.files = None) => patterns = {} /\ files = {}

\* a statement rendered from a pattern that holds a quote
C3_Witness ==
  /\ Rendered /\ exec.pc = "done"
  /\ CopyArgs.pattern = Some(<<"a.*", QUOTE>>)
  /\ Contains(exec.sent, <<"PATTERN", SP, "=", SP, QUOTE, "a.*", QUOTE, QUOTE, QUOTE>>)

\* ------------------------------------------------------------------- C4

\* NAME ('k' = 'v', ...) for a non-empty dict d
RefClause(name, d) ==
  <<name, SP, "(">>
    \o Join([i \in 1..Len(d) |->
               escape_string(d[i][1]) \o <<SP, "=", SP>> \o escape_string(d[i][2])],
            <<",", SP>>)
    \o <<")">>

\* the lines of the reference rendering of an operator with arguments a
RefLines(a) ==
  LET loc == escape_string(a.file_location)
      fo == IF a.format_options.kind = "none" THEN <<>> ELSE a.format_options.val
  IN << <<"COPY", SP, "INTO", SP>> \o a.table_name,
        <<"FROM", SP>> \o
          (IF a.expression_list = None THEN loc
           ELSE <<"(", "SELECT", SP>> \o a.expression_list[1]
                  \o <<SP, "FROM", SP>> \o loc \o <<")">>),
        <<"FILEFORMAT", SP, "=", SP>> \o a.file_format >>
     \o (IF a.pattern /= None
           THEN << <<"PATTERN", SP, "=", SP>> \o escape_string(a.pattern[1]) >>
         ELSE IF a.files /= None
           THEN << <<"FILES", SP, "=", SP>> \o escape_sequence(a.files[1]) >>
         ELSE <<>>)
     \o (IF fo /= <<>> THEN <<RefClause("FORMAT_OPTIONS", fo)>> ELSE <<>>)
     \o (IF Folded(a) /= <<>> THEN <<RefClause("COPY_OPTIONS", Folded(a))>> ELSE <<>>)

\* C4: the rendered statement is the reference rendering: the lines COPY
\* INTO <table_name>, FROM <location>, FILEFORMAT = <file_format>, then the
\* pattern-or-files line, the FORMAT_OPTIONS clause and the COPY_OPTIONS
\* clause, each present exactly when it has something to say, joined by
\* newlines with no whitespace after the last; with no pattern, files,
\* expression, options or force_copy it is the three header lines.
C4_ReferenceRendering ==
  Rendered =>
    LET a == CopyArgs
    IN /\ exec.sent = Join(RefLines(a), <<NL>>)
       /\ ~IsSpace(exec.sent[Len(exec.sent)])
       /\ ( /\ a.pattern = None /\ a.files = None /\ a.expression_list = None
            /\ a.force_copy = None
            /\ (a.format_options.kind = "none" \/ a.format_options.val = <<>>)
            /\ (a.copy_options.kind = "none" \/ a.copy_options.val = <<>>) ) =>
            exec.sent = <<"COPY", SP, "INTO", SP>> \o a.table_name \o <<NL>>
                          \o <<"FROM", SP, QUOTE>> \o DoubleQuotes(a.file_location)
                          \o <<QUOTE, NL>>
                          \o <<"FILEFORMAT", SP, "=", SP>> \o a.file_format

\* a statement with a projection, a file list, two format options and copy
\* options has been rendered
C4_Witness ==
  /\ Rendered /\ exec.pc = "done"
  /\ CopyArgs.expression_list /= None
  /\ CopyArgs.files /= None /\ CopyArgs.files /= Some(<<>>)
  /\ CopyArgs.format_options.kind = "val" /\ Len(CopyArgs.format_options.val) = 2
  /\ CopyArgs.force_copy = Some(TRUE)
  /\ Len(Lines(exec.sent)) = 6

\* ------------------------------------------- reading the output directive

\* an execute of the DatabricksSqlOperator has ended; SqlSelf is the
\* operator as it was when execute was called
SqlDone == exec.kind = "sql" /\ exec.pc = "done"
SqlSelf == exec.self_before
FieldNames == [i \in 1..Len(exec.hook.schema) |-> exec.hook.schema[i][1]]

CsvForms == { <<"c", "s", "v">>, <<"C", "S", "V">> }
JsonForms == { <<"j", "s", "o", "n">> }
JsonlForms == { <<"J", "s", "o", "n", "L">> }

HasPath(self) == self.output_path /= None
FormatIn(self, forms) ==
  self.output_format /= None /\ self.output_format[1] \in forms
ValidDirective(self) ==
  ~HasPath(self) \/ FormatIn(self, CsvForms \cup JsonForms \cup JsonlForms)

\* params is csv_params with header = False in it
HeaderSuppressed(params) ==
  /\ params.kind /= "none"
  /\ \E i \in 1..Len(params.val) : params.val[i] = <<(<<"header">>), FALSE>>

\* the file holds the rows as CSV records in the order of the results, each
\* with its cells in schema order, after a header record iff withHeader
CsvShape(withHeader) ==
  LET h == IF withHeader THEN 1 ELSE 0
      rs == exec.hook.results
  IN /\ file.exists
     /\ Len(file.lines) = h + Len(rs)
     /\ \A i \in 1..Len(file.lines) : file.lines[i].t = "csv_record"
     /\ withHeader => file.lines[1].cells = FieldNames
     /\ \A i \in 1..Len(rs) :
          file.lines[h + i].cells =
            [j \in 1..Len(FieldNames) |-> rs[i][FieldNames[j]]]

\* ------------------------------------------------------------------- C5

\* C5: with an output path, _format_output writes the rows in the order
\* the hook returned them: as csv one header record of the column names in
\* schema order, unless csv_params holds header = False when it is called,
\* then one record per row; as json a single array of one object per row;
\* as jsonl one line per row, each one object, and nothing else; the
\* format name is matched whatever its case.
C5_OutputShape ==
  (SqlDone /\ ~exec.hook.raised /\ HasPath(SqlSelf)) =>
    LET rs == exec.hook.results
    IN /\ FormatIn(SqlSelf, CsvForms) =>
            /\ exec.outcome = "returned"
            /\ CsvShape(~HeaderSuppressed(SqlSelf.csv_params))
       /\ FormatIn(SqlSelf, JsonForms) =>
            /\ exec.outcome = "returned"
            /\ file.exists
            /\ Len(file.lines) = 1
            /\ file.lines[1].t = "json_array"
            /\ Len(file.lines[1].items) = Len(rs)
            /\ \A i \in 1..Len(rs) : file.lines[1].items[i] = rs[i]
       /\ FormatIn(SqlSelf, JsonlForms) =>
            /\ exec.outcome = "returned"
            /\ file.exists
            /\ Len(file.lines) = Len(rs)
            /\ \A i \in 1..Len(rs) :
                 file.lines[i].t = "json_object" /\ file.lines[i].obj = rs[i]

\* two rows have been written as CSV, under a header, for the format "CSV"
C5_Witness ==
  /\ SqlDone /\ exec.outcome = "returned" /\ HasPath(SqlSelf)
  /\ SqlSelf.output_format = Some(<<"C", "S", "V">>)
  /\ exec.hook.results = <<RowOf(2), RowOf(1)>>
  /\ Len(file.lines) = 3
  /\ file.lines[1].cells = <<"b", "a">>
  /\ file.lines[2].cells = <<4, 3>>

\* ------------------------------------------------------------------- C6

\* C6: executing a DatabricksSqlOperator with an output path and an output
\* format that is empty or is not csv, json or jsonl in any case fails, with
\* AirflowException once the hook has returned the rows, and the file at
\* the output path is not created, truncated or written.
C6_UnsupportedFormat ==
  (SqlDone /\ HasPath(SqlSelf) /\ ~ValidDirective(SqlSelf)) =>
    /\ exec.outcome = "raised"
    /\ ~exec.hook.raised => exec.error = AirflowException
    /\ exec.opens = 0
    /\ file = exec.file_before

\* an execution for the format "xml" has failed over a file written before
C6_Witness ==
  /\ SqlDone /\ HasPath(SqlSelf)
  /\ SqlSelf.output_format = Some(<<"x", "m", "l">>)
  /\ exec.error = AirflowException
  /\ exec.file_before.exists /\ exec.file_before.lines /= <<>>

\* ------------------------------------------------------------------- C7

C8_Original ==
  (SqlDone /\ exec.outcome = "returned" /\ HasPath(SqlSelf)
     /\ FormatIn(SqlSelf, CsvForms)) =>
    CsvShape(~HeaderSuppressed(SqlSelf.args.csv_params))

\* ------------------------------------------------------------------- C9

\* the arguments a with the copy options as the caller wrote them
AsWritten(a) ==
  IF a.copy_options.kind = "ref"
    THEN [a EXCEPT !.copy_options = ValDict(created[a.copy_options.ref])]
    ELSE a

\* C9: constructing a DatabricksCopyIntoOperator leaves the copy_options
\* dict of the caller as the caller wrote it, and every operator renders
\* the statement of its own arguments, whatever other operators were
\* constructed from the same dict.
C9_Original ==
  /\ \A r \in 1..MaxDicts : Allocated(heap, r) => heap[r].val = created[r]
  /\ \A i \in 1..MaxCopyOps :
       copyOps[i] /= None =>
         _create_sql_query(copyOps[i][1], heap)
           = Join(RefLines(AsWritten(copyOps[i][1].args)), <<NL>>)

\* ------------------------------------------------------------------ C10

\* C10: an execution of either operator calls hook.run once; if the call
\* raises, that error leaves execute, nothing is returned, and the output
\* file is neither opened nor written.
C10_OneHookCall ==
  /\ exec.pc /= "idle" => exec.hook_calls = 1
  /\ (exec.pc = "done" /\ exec.hook.raised) =>
       /\ exec.outcome = "raised"
       /\ exec.error = exec.hook.error
       /\ exec.value = None
       /\ exec.opens = 0
       /\ file = exec.file_before
  /\ (exec.pc = "done" /\ ~exec.hook.raised /\ exec.kind = "copy") =>
       exec.outcome = "returned" /\ exec.value = None

\* the hook has failed under a DatabricksSqlOperator that has an output
\* path, a supported format and do_xcom_push
C10_Witness ==
  /\ SqlDone /\ exec.hook.raised /\ exec.error = "ConnectionError"
  /\ HasPath(SqlSelf) /\ FormatIn(SqlSelf, JsonForms) /\ SqlSelf.do_xcom_push
  /\ exec.file_before.exists

====
